---------------------------- MODULE Spec2Model ----------------------------
(***************************************************************************)
(* A model of the stardict crate (zangloo/stardict).                       *)
(*                                                                         *)
(*   Part I    the sqlite cache and its cross-process initialisation       *)
(*             (src/src/stardict_sqlite.rs)                                *)
(*   Part II   the dictzip reader and the dict reader                      *)
(*             (src/src/dictzip.rs, src/src/dict.rs)                       *)
(*   Part III  index lookup, the uncached path and the cache backends      *)
(*             (src/src/idx.rs, src/src/stardict.rs,                       *)
(*              src/src/stardict_sqlite.rs, src/src/stardict_sled.rs)      *)
(*                                                                         *)
(* Every part has its own specification over the shared variables; the     *)
(* variables of the other parts stay at their initial value.               *)
(***************************************************************************)
EXTENDS Integers, Sequences, FiniteSets, TLC

(***************************************************************************)
(* Part I.  The sqlite cache.                                              *)
(***************************************************************************)

\* The operating-system processes that open the same dictionary.  A pid is
\* never reused: a process that died stays dead.
Procs == {"A", "B", "C"}

\* Bound: the number of cache files (inodes) that are ever created.
MaxFiles == 3

\* Bound: the number of index entries the populator inserts.
NumWords == 2

VARIABLES
    path,      \* the inode the cache path names; 0 when the file is absent
    files,     \* files[i]: the committed content of inode i
    alive,     \* alive[p]: process p is running
    pc,        \* pc[p]: p's position in StarDictCachedSqlite::new
    db,        \* db[p]: the InnerDb variant of p's handle
    conn,      \* conn[p]: inode of p's read-only connection; 0 = none
    wconn,     \* wconn[p]: inode of p's read-write connection; 0 = none
    thr,       \* thr[p]: position of p's populator thread
    tx,        \* tx[p]: the open transaction of p's read-write connection
    obs,       \* obs[p]: what p's open observed in load_db
    deeds,     \* deeds[p]: what p did to the cache file
    res        \* res[p]: the result of p's last lookup

pvars == <<path, files, alive, pc, db, conn, wconn, thr, tx, obs, deeds, res>>

\* A database file right after Connection::open created it.
EmptyDb == [tables |-> FALSE, status |-> "none", pid |-> "none", words |-> 0]

NoTx == [open |-> FALSE, status |-> "none", words |-> 0]

\* The result of a lookup: its kind and, for an answer, the number of word
\* rows the answering connection could see.
Res(kind, n) == [kind |-> kind, words |-> n]

NoRes == Res("none", 0)

\* select value from meta where key = 'init_status': an error when the table
\* or the row is missing, else whether the value is "success".
check_init_complete(d) ==
    IF ~d.tables \/ d.status = "none" THEN "Err"
    ELSE IF d.status = "success" THEN "true" ELSE "false"

\* Mutant of other_pid_alive: the liveness test reads the wrong way round.
other_pid_alive_negated(d) ==
    IF ~d.tables \/ d.pid = "none" THEN "Err"
    ELSE IF alive[d.pid] THEN "false" ELSE "true"

\* select value from meta where key = 'init_pid', then the liveness probe.
other_pid_alive(d) ==
    IF ~d.tables \/ d.pid = "none" THEN "Err"
    ELSE IF alive[d.pid] THEN "true" ELSE "false"

\* What p's read-write connection reads: the committed file with p's own
\* uncommitted changes on top.
WView(p) ==
    IF tx[p].open
    THEN [files[wconn[p]] EXCEPT !.status = tx[p].status, !.words = tx[p].words]
    ELSE files[wconn[p]]

\* The populator of p holds the mutex around the read-write connection.
LockHeld(p) == thr[p] \in {"import", "commit"}

PInit ==
    /\ path = 0
    /\ files = << >>
    /\ alive = [p \in Procs |-> TRUE]
    /\ pc = [p \in Procs |-> "idle"]
    /\ db = [p \in Procs |-> "None"]
    /\ conn = [p \in Procs |-> 0]
    /\ wconn = [p \in Procs |-> 0]
    /\ thr = [p \in Procs |-> "none"]
    /\ tx = [p \in Procs |-> NoTx]
    /\ obs = [p \in Procs |-> "none"]
    /\ deeds = [p \in Procs |-> {}]
    /\ res = [p \in Procs |-> NoRes]

\* ---- StarDictCachedSqlite::new ------------------------------------------

\* load_db: idx_cache.exists(), then the read-only Connection.
load_db_exists(p) ==
    /\ alive[p] /\ pc[p] = "idle"
    /\ IF path = 0
       THEN /\ obs' = [obs EXCEPT ![p] = "absent"]
            /\ pc' = [pc EXCEPT ![p] = "open"]
            /\ conn' = conn
       ELSE /\ conn' = [conn EXCEPT ![p] = path]
            /\ pc' = [pc EXCEPT ![p] = "check"]
            /\ obs' = obs
    /\ UNCHANGED <<path, files, alive, db, wconn, thr, tx, deeds, res>>

\* load_db: check_init_complete(&db); an error fails the open.
load_db_check(p) ==
    /\ alive[p] /\ pc[p] = "check"
    /\ LET r == check_init_complete(files[conn[p]]) IN
       CASE r = "Err" ->
              /\ pc' = [pc EXCEPT ![p] = "failed"]
              /\ conn' = [conn EXCEPT ![p] = 0]
              /\ UNCHANGED <<db, obs>>
         [] r = "true" ->
              /\ pc' = [pc EXCEPT ![p] = "done"]
              /\ db' = [db EXCEPT ![p] = "Loaded"]
              /\ obs' = [obs EXCEPT ![p] = "success"]
              /\ conn' = conn
         [] OTHER ->
              /\ pc' = [pc EXCEPT ![p] = "pid"]
              /\ UNCHANGED <<db, obs, conn>>
    /\ UNCHANGED <<path, files, alive, wconn, thr, tx, deeds, res>>

\* load_db: other_pid_alive(&db, &idx_cache); an error fails the open.
load_db_pid(p) ==
    /\ alive[p] /\ pc[p] = "pid"
    /\ LET d == files[conn[p]]
           r == other_pid_alive(d) IN
       CASE r = "Err" ->
              /\ pc' = [pc EXCEPT ![p] = "failed"]
              /\ conn' = [conn EXCEPT ![p] = 0]
              /\ UNCHANGED <<db, obs>>
         [] r = "true" ->
              /\ pc' = [pc EXCEPT ![p] = "done"]
              /\ db' = [db EXCEPT ![p] = "InitByOther"]
              /\ obs' = [obs EXCEPT ![p] =
                            IF d.pid \in Procs /\ alive[d.pid] THEN "alive" ELSE "dead"]
              /\ conn' = conn
         [] OTHER ->
              /\ pc' = [pc EXCEPT ![p] = "remove"]
              /\ obs' = [obs EXCEPT ![p] =
                            IF d.pid \in Procs /\ alive[d.pid] THEN "alive" ELSE "dead"]
              /\ UNCHANGED <<db, conn>>
    /\ UNCHANGED <<path, files, alive, wconn, thr, tx, deeds, res>>

\* load_db: db.close() and fs::remove_file(idx_cache).  The file is removed
\* by name: whatever inode the path names now.  A missing file is an error.
load_db_remove(p) ==
    /\ alive[p] /\ pc[p] = "remove"
    /\ conn' = [conn EXCEPT ![p] = 0]
    /\ IF path = 0
       THEN /\ pc' = [pc EXCEPT ![p] = "failed"]
            /\ UNCHANGED <<path, deeds>>
       ELSE /\ path' = 0
            /\ deeds' = [deeds EXCEPT ![p] = @ \cup {"remove"}]
            /\ pc' = [pc EXCEPT ![p] = "open"]
    /\ UNCHANGED <<files, alive, db, wconn, thr, tx, obs, res>>

\* Connection::open(&idx_cache): opens the file the path names, creating it
\* when it is absent.
new_open(p) ==
    /\ alive[p] /\ pc[p] = "open"
    /\ IF path = 0
       THEN /\ Len(files) < MaxFiles
            /\ files' = Append(files, EmptyDb)
            /\ path' = Len(files) + 1
            /\ wconn' = [wconn EXCEPT ![p] = Len(files) + 1]
            /\ deeds' = [deeds EXCEPT ![p] = @ \cup {"create"}]
       ELSE /\ wconn' = [wconn EXCEPT ![p] = path]
            /\ UNCHANGED <<files, path, deeds>>
    /\ pc' = [pc EXCEPT ![p] = "init_db"]
    /\ UNCHANGED <<alive, db, conn, thr, tx, obs, res>>

\* init_db: the execute_batch that creates the tables and inserts version
\* and init_status = 'start'.  "create table meta" fails when the table is
\* already there, and that fails the open.
init_db_batch(p) ==
    /\ alive[p] /\ pc[p] = "init_db"
    /\ IF files[wconn[p]].tables
       THEN /\ pc' = [pc EXCEPT ![p] = "failed"]
            /\ wconn' = [wconn EXCEPT ![p] = 0]
            /\ UNCHANGED <<files, deeds>>
       ELSE /\ files' = [files EXCEPT ![wconn[p]] =
                            [@ EXCEPT !.tables = TRUE, !.status = "start"]]
            /\ deeds' = [deeds EXCEPT ![p] = @ \cup {"write"}]
            /\ pc' = [pc EXCEPT ![p] = "init_pid"]
            /\ wconn' = wconn
    /\ UNCHANGED <<path, alive, db, conn, thr, tx, obs, res>>

\* init_db: insert init_pid; then Idx::new, Dict::new, thread::spawn and
\* the handle InnerDb::Init.
init_db_pid(p) ==
    /\ alive[p] /\ pc[p] = "init_pid"
    /\ files' = [files EXCEPT ![wconn[p]] = [@ EXCEPT !.pid = p]]
    /\ thr' = [thr EXCEPT ![p] = "spawned"]
    /\ db' = [db EXCEPT ![p] = "Init"]
    /\ pc' = [pc EXCEPT ![p] = "done"]
    /\ UNCHANGED <<path, alive, conn, wconn, tx, obs, deeds, res>>
\* ---- the populator thread (new, lines 76-82) and import_cache --------------

\* arc_db.lock(), then "begin".
import_begin(p) ==
    /\ alive[p] /\ thr[p] = "spawned"
    /\ thr' = [thr EXCEPT ![p] = "import"]
    /\ tx' = [tx EXCEPT ![p] =
                 [open |-> TRUE, status |-> files[wconn[p]].status, words |-> 0]]
    /\ UNCHANGED <<path, files, alive, pc, db, conn, wconn, obs, deeds, res>>

\* One pass of the loop over idx.items: the word row and its segment rows.
import_word(p) ==
    /\ alive[p] /\ thr[p] = "import"
    /\ tx[p].words < NumWords
    /\ tx' = [tx EXCEPT ![p] = [@ EXCEPT !.words = @ + 1]]
    /\ UNCHANGED <<path, files, alive, pc, db, conn, wconn, thr, obs, deeds, res>>

\* Mutant of import_status: the update runs outside the transaction and is
\* committed on its own, before the inserts are.
import_status_autocommit(p) ==
    /\ alive[p] /\ thr[p] = "import"
    /\ tx[p].words = NumWords
    /\ files' = [files EXCEPT ![wconn[p]] = [@ EXCEPT !.status = "success"]]
    /\ thr' = [thr EXCEPT ![p] = "commit"]
    /\ UNCHANGED <<path, alive, pc, db, conn, wconn, tx, obs, deeds, res>>

\* After the loops: update meta set value = 'success' where key =
\* 'init_status', inside the transaction that holds the inserts.
import_status(p) ==
    /\ alive[p] /\ thr[p] = "import"
    /\ tx[p].words = NumWords
    /\ tx' = [tx EXCEPT ![p] = [@ EXCEPT !.status = "success"]]
    /\ thr' = [thr EXCEPT ![p] = "commit"]
    /\ UNCHANGED <<path, files, alive, pc, db, conn, wconn, obs, deeds, res>>

\* "commit": the transaction becomes the file's committed content; the
\* thread ends and drops the lock.
import_commit(p) ==
    /\ alive[p] /\ thr[p] = "commit"
    /\ files' = [files EXCEPT ![wconn[p]] = WView(p)]
    /\ tx' = [tx EXCEPT ![p] = NoTx]
    /\ thr' = [thr EXCEPT ![p] = "done"]
    /\ UNCHANGED <<path, alive, pc, db, conn, wconn, obs, deeds, res>>

\* Any statement of import_cache may fail (each carries a "?"): the function
\* returns Err, the thread prints and ends, the lock is dropped and the
\* transaction stays open, uncommitted, on the read-write connection.
import_fail(p) ==
    /\ alive[p] /\ thr[p] \in {"import", "commit"}
    /\ thr' = [thr EXCEPT ![p] = "failed"]
    /\ UNCHANGED <<path, files, alive, pc, db, conn, wconn, tx, obs, deeds, res>>

\* ---- StarDictCachedSqlite::lookup ----------------------------------------

\* lookup_db on a connection that sees d: a query of the word table.
lookup_db(d) ==
    IF ~d.tables THEN Res("FailedOpenCache", 0) ELSE Res("Ok", d.words)

\* The match on self.db: "keep" for Loaded, "reopen" when the cache reads
\* as complete, else the CacheInitiating error.
reset_init(p) ==
    CASE db[p] = "Loaded" -> "keep"
      [] db[p] = "InitByOther" ->
           IF check_init_complete(files[conn[p]]) = "true"
           THEN "reopen" ELSE "CacheInitiating"
      [] db[p] = "Init" ->
           IF ~LockHeld(p)
           THEN IF check_init_complete(WView(p)) = "true"
                THEN "reopen" ELSE "CacheInitiating"
           ELSE "CacheInitiating"

lookup(p) ==
    /\ alive[p] /\ pc[p] = "done" /\ db[p] # "None"
    /\ LET r == reset_init(p) IN
       CASE r = "CacheInitiating" ->
              /\ res' = [res EXCEPT ![p] = Res("CacheInitiating", 0)]
              /\ UNCHANGED <<db, conn, wconn, tx>>
         [] r = "keep" ->
              /\ res' = [res EXCEPT ![p] = lookup_db(files[conn[p]])]
              /\ UNCHANGED <<db, conn, wconn, tx>>
         [] r = "reopen" /\ path = 0 ->
              \* Connection::open_with_flags(READ_ONLY) of a missing file
              /\ res' = [res EXCEPT ![p] = Res("FailedOpenCache", 0)]
              /\ UNCHANGED <<db, conn, wconn, tx>>
         [] r = "reopen" /\ path # 0 ->
              \* self.db = InnerDb::Loaded(db): the old connections are dropped
              /\ db' = [db EXCEPT ![p] = "Loaded"]
              /\ conn' = [conn EXCEPT ![p] = path]
              /\ wconn' = [wconn EXCEPT ![p] = 0]
              /\ tx' = [tx EXCEPT ![p] = NoTx]
              /\ res' = [res EXCEPT ![p] = lookup_db(files[path])]
    /\ UNCHANGED <<path, files, alive, pc, thr, obs, deeds>>

\* ---- the environment -----------------------------------------------------

\* The process ends (exit, crash, kill) at any point; its connections close
\* and an open transaction is rolled back.
die(p) ==
    /\ alive[p]
    /\ alive' = [alive EXCEPT ![p] = FALSE]
    /\ pc' = [pc EXCEPT ![p] = "dead"]
    /\ db' = [db EXCEPT ![p] = "None"]
    /\ conn' = [conn EXCEPT ![p] = 0]
    /\ wconn' = [wconn EXCEPT ![p] = 0]
    /\ thr' = [thr EXCEPT ![p] = "none"]
    /\ tx' = [tx EXCEPT ![p] = NoTx]
    /\ res' = [res EXCEPT ![p] = NoRes]
    /\ UNCHANGED <<path, files, obs, deeds>>

PNext ==
    \E p \in Procs :
        \/ load_db_exists(p)
        \/ load_db_check(p)
        \/ load_db_pid(p)
        \/ load_db_remove(p)
        \/ new_open(p)
        \/ init_db_batch(p)
        \/ init_db_pid(p)
        \/ import_begin(p)
        \/ import_word(p)
        \/ import_status(p)
        \/ import_commit(p)
        \/ import_fail(p)
        \/ lookup(p)
        \/ die(p)

(***************************************************************************)
(* Part II.  The dictzip reader and the dict reader.                       *)
(***************************************************************************)

\* The bytes of a dictionary: 'A', and 0xFF, a byte no UTF-8 sequence
\* contains.
Bytes == {65, 255}

\* Bound: the length of the uncompressed .dict stream.
MaxLen == 3

\* Bound: the chunk_length of the RA sub-field.
MaxChunkLen == 2

\* Bound: the size of a block of an index entry in the dict reader's runs.
MaxBlockSize == 2

\* Bound: the number of entries looked up through one dict reader.
MaxLookups == 1

VARIABLES
    data,             \* the uncompressed .dict stream (the plain file)
    chunk_length,     \* DictZip.chunk_length
    chunks,           \* DictZip.chunks: the compressed size of each chunk
    data_offset,      \* DictZip.data_offset
    dzfile,           \* the bytes of the .dict.dz file
    cache,            \* DictZip.cache: chunk index -> inflated bytes
    zreq,             \* the last get_text request
    zres,             \* its result
    sametypesequence, \* Ifo.sametypesequence
    entry,            \* the last IdxEntry given to get_definition
    defPlain,         \* its result from the plain reader
    defDz,            \* its result from the dictzipped reader
    nlook             \* the number of get_definition calls so far

zvars == <<data, chunk_length, chunks, data_offset, dzfile, cache,
           zreq, zres, sametypesequence, entry, defPlain, defDz, nlook>>

\* All sequences over S of length at most n.
SeqsUpTo(S, n) == UNION {[1..k -> S] : k \in 0..n}

Min(a, b) == IF a < b THEN a ELSE b

\* lib.rs buf_to_string: from_utf8_lossy turns every 0xFF into U+FFFD, and
\* the filter drops every U+FFFD; 'A' decodes to itself.
buf_to_string(buf) == SelectSeq(buf, LAMBDA b : b # 255)

\* The length of the run of equal bytes that s starts with.
RECURSIVE RunLength(_)
RunLength(s) ==
    IF Len(s) < 2 THEN Len(s)
    ELSE IF s[1] # s[2] THEN 1
    ELSE 1 + RunLength(Tail(s))

\* The compressor that wrote a chunk (outside the crate).  It stands for raw
\* deflate as a run-length code, <<count, byte>> per run: the compressed
\* size varies with the content and not every byte string inflates.
RECURSIVE Deflate(_)
Deflate(s) ==
    IF s = << >> THEN << >>
    ELSE LET n == RunLength(s)
         IN  <<n, s[1]>> \o Deflate(SubSeq(s, n + 1, Len(s)))

\* inflate::inflate_bytes: the inverse of Deflate, an error on anything that
\* is not a sequence of <<count, byte>> runs.
RECURSIVE inflate_bytes(_)
inflate_bytes(buf) ==
    IF buf = << >> THEN [ok |-> TRUE, out |-> << >>]
    ELSE IF Len(buf) < 2 \/ buf[1] < 1 \/ buf[1] > MaxLen + 1 \/ buf[2] \notin Bytes
    THEN [ok |-> FALSE, out |-> << >>]
    ELSE LET rest == inflate_bytes(SubSeq(buf, 3, Len(buf)))
         IN  [ok |-> rest.ok,
              out |-> [i \in 1..buf[1] |-> buf[2]] \o rest.out]

\* The number of chunks of a stream d cut every cl bytes.
ChunkCount(d, cl) == (Len(d) + cl - 1) \div cl

\* Chunk i (from 0) of the stream: cl bytes, the last one possibly fewer.
Chunk(d, cl, i) == SubSeq(d, i * cl + 1, Min((i + 1) * cl, Len(d)))

RECURSIVE Concat(_)
Concat(ss) == IF ss = << >> THEN << >> ELSE Head(ss) \o Concat(Tail(ss))

\* The length of the smallest dictzip header for n chunks: the 10 bytes of
\* read_header, XLEN, then the RA sub-field (id, length, version,
\* chunk_length, chunk_count, n sizes); no FNAME, FCOMMENT or FHCRC.
HeaderLen(n) == 10 + 2 + 4 + 6 + 2 * n

\* What DictZip::new holds after reading the header of the dictzip file
\* of stream d with chunk length cl.
DzChunks(d, cl) == [i \in 1..ChunkCount(d, cl) |-> Len(Deflate(Chunk(d, cl, i - 1)))]

DzFile(d, cl) ==
    [i \in 1..HeaderLen(ChunkCount(d, cl)) |-> 0]
      \o Concat([i \in 1..ChunkCount(d, cl) |-> Deflate(Chunk(d, cl, i - 1))])

\* A reader that takes every chunk to start at data_offset.
NoPrefixSum(sizes, n) == 0

\* The sum of the first n compressed sizes: the loop of read_chunk that
\* adds them to data_offset.
RECURSIVE SumTo(_, _)
SumTo(sizes, n) == IF n = 0 THEN 0 ELSE sizes[n] + SumTo(sizes, n - 1)

\* DictZip::read_chunk for chunk_index i on the cache c: [ok, cache].
read_chunk(c, i) ==
    IF i \in DOMAIN c THEN [ok |-> TRUE, cache |-> c]
    ELSE LET offset == data_offset + SumTo(chunks, i)
         IN  IF i >= Len(chunks) THEN [ok |-> FALSE, cache |-> c]
             ELSE LET length == chunks[i + 1]
                  IN  IF offset + length > Len(dzfile)
                      THEN [ok |-> FALSE, cache |-> c]
                      ELSE LET t == inflate_bytes(
                                       SubSeq(dzfile, offset + 1, offset + length))
                           IN  IF ~t.ok THEN [ok |-> FALSE, cache |-> c]
                               ELSE [ok |-> TRUE,
                                     cache |-> [j \in DOMAIN c \cup {i} |->
                                                  IF j = i THEN t.out ELSE c[j]]]

\* The loop of get_text over first_chunk..=last_chunk: [ok, buf, cache].
RECURSIVE read_chunks(_, _, _, _)
read_chunks(c, i, last, buf) ==
    IF i > last THEN [ok |-> TRUE, buf |-> buf, cache |-> c]
    ELSE LET r == read_chunk(c, i)
         IN  IF ~r.ok THEN [ok |-> FALSE, buf |-> buf, cache |-> r.cache]
             ELSE read_chunks(r.cache, i + 1, last, buf \o r.cache[i])

\* The result of a range read: Some(value), None, a fault (a panic), or the
\* overflow of "offset + size - 1".
ZRes(kind, value, c) == [kind |-> kind, value |-> value, cache |-> c]

\* The chunks and the slice start of a request: first_chunk, last_chunk and
\* chunk_offset as get_text computes them on usize.  "offset + size - 1"
\* with offset + size = 0 overflows.
chunk_range(offset, size) ==
    LET chunk_count == Len(chunks)
        first_chunk == offset \div chunk_length
    IN  IF first_chunk > chunk_count THEN [kind |-> "None"]
        ELSE IF offset + size = 0
        THEN [kind |-> "Overflow"]
        ELSE LET last_chunk == (offset + size - 1) \div chunk_length
             IN  IF last_chunk >= chunk_count THEN [kind |-> "None"]
                 ELSE [kind |-> "Some", first |-> first_chunk, last |-> last_chunk,
                       chunk_offset |-> offset - first_chunk * chunk_length]

\* DictZip::get_text(offset, size) on the cache c.
get_text(c, offset, size) ==
    LET g == chunk_range(offset, size)
    IN  IF g.kind # "Some" THEN ZRes(g.kind, << >>, c)
        ELSE LET r == read_chunks(c, g.first, g.last, << >>)
             IN  IF ~r.ok THEN ZRes("None", << >>, r.cache)
                 ELSE IF g.chunk_offset + size > Len(r.buf)
                 THEN ZRes("Fault", << >>, r.cache)
                 ELSE ZRes("Some",
                           buf_to_string(SubSeq(r.buf, g.chunk_offset + 1,
                                                g.chunk_offset + size)),
                           r.cache)

\* What the build makes of a result.  The overflow is a panic in a build
\* with overflow checks (the debug profile); without them the value is
\* usize::MAX, whose quotient by chunk_length is above every chunk count
\* (a u16), and the call returns None.
Outcomes(kind) == IF kind = "Overflow" THEN {"Fault", "None"} ELSE {kind}

NoReq == [offset |-> 0, size |-> 0]

\* The state of the dict reader's variables while no dict reader runs.
DictIdle ==
    /\ sametypesequence = << >>
    /\ entry = << >>
    /\ defPlain = [kind |-> "none"]
    /\ defDz = [kind |-> "none"]
    /\ nlook = 0

\* A dictzip file written from a stream, opened by DictZip::new.
DzOpen(d, cl) ==
    /\ data = d
    /\ chunk_length = cl
    /\ chunks = DzChunks(d, cl)
    /\ data_offset = HeaderLen(ChunkCount(d, cl))
    /\ dzfile = DzFile(d, cl)
    /\ cache = << >>
    /\ zreq = NoReq
    /\ zres = [kind |-> "none"]

ZInit ==
    /\ \E d \in SeqsUpTo(Bytes, MaxLen) : \E cl \in 1..MaxChunkLen : DzOpen(d, cl)
    /\ DictIdle

\* One call of get_text.  A panic ends the reader.
dz_get_text ==
    /\ zres.kind # "Fault"
    /\ \E offset \in 0..(MaxLen + 1) : \E size \in 0..(MaxLen + 1) :
         LET r == get_text(cache, offset, size)
         IN  /\ zreq' = [offset |-> offset, size |-> size]
             /\ \E k \in Outcomes(r.kind) : zres' = [kind |-> k, value |-> r.value]
             /\ cache' = r.cache
    /\ UNCHANGED <<data, chunk_length, chunks, data_offset, dzfile,
                   sametypesequence, entry, defPlain, defDz, nlook>>

\* The blocks of an index entry: more than one when the headword occurs
\* more than once in the .idx file.
MaxBlocks == 2

Blocks == [offset : 0..(MaxLen + 1), size : 0..MaxBlockSize]

Entries ==
    [word : {"w"}, blocks : UNION {[1..k -> Blocks] : k \in 1..MaxBlocks}]

\* dict.rs parse_data(data, types).  "data[0] as char" keeps any byte, 0xFF
\* too, as the one character of the types string.
parse_data(d, types) ==
    IF Len(types) = 0
    THEN IF Len(d) < 2 THEN [ok |-> FALSE]
         ELSE [ok |-> TRUE, types |-> <<d[1]>>, text |-> buf_to_string(Tail(d))]
    ELSE [ok |-> TRUE, types |-> types, text |-> buf_to_string(d)]

\* The segments get_definition has pushed after the block's result r.
push_segment(segments, r) ==
    IF r.ok THEN Append(segments, [types |-> r.types, text |-> r.text])
    ELSE segments

\* The end of get_definition: no value when no block gave a segment.
definition(word, segments) ==
    IF Len(segments) = 0 THEN [kind |-> "None"]
    ELSE [kind |-> "Some", word |-> word, segments |-> segments]

\* The read of the Plain arm of get_definition: the size bytes at offset
\* when the range ends inside file_size.  The file does not change under
\* the reader, so seek and read_exact succeed there.
plain_read(offset, size) ==
    IF offset + size <= Len(data)
    THEN [kind |-> "Some", buf |-> SubSeq(data, offset + 1, offset + size)]
    ELSE [kind |-> "None"]

\* The Plain arm of get_definition for one block.
plain_block(b) ==
    LET r == plain_read(b.offset, b.size)
    IN  IF r.kind = "Some" THEN parse_data(r.buf, sametypesequence)
        ELSE [ok |-> FALSE]

\* The loop of get_definition on a Plain reader, from block i.
RECURSIVE plain_blocks(_, _, _)
plain_blocks(blocks, i, segments) ==
    IF i > Len(blocks) THEN segments
    ELSE plain_blocks(blocks, i + 1, push_segment(segments, plain_block(blocks[i])))

plain_get_definition(idx) == definition(idx.word, plain_blocks(idx.blocks, 1, << >>))

\* DictZip::get_segment_data(offset, size), which dict.rs calls: the chunks
\* of the range, concatenated, and the start of the range in them; the
\* caller slices.  Its chunk arithmetic is that of get_text.
get_segment_data(c, offset, size) ==
    LET g == chunk_range(offset, size)
    IN  IF g.kind # "Some" THEN [kind |-> g.kind, cache |-> c]
        ELSE LET r == read_chunks(c, g.first, g.last, << >>)
             IN  IF ~r.ok THEN [kind |-> "None", cache |-> r.cache]
                 ELSE [kind |-> "Some", buf |-> r.buf, offset |-> g.chunk_offset,
                       cache |-> r.cache]

\* The loop of get_definition on a DictZip reader, from block i, on the
\* cache c: "None" when "?" returned out of the function, "Fault" when the
\* slice "&buf[offset..offset + size]" is out of range, else "Done".
RECURSIVE dz_blocks(_, _, _, _)
dz_blocks(blocks, i, segments, c) ==
    IF i > Len(blocks) THEN [kind |-> "Done", segments |-> segments, cache |-> c]
    ELSE LET b == blocks[i]
             g == get_segment_data(c, b.offset, b.size)
         IN  IF g.kind # "Some" THEN [kind |-> g.kind, cache |-> g.cache]
             ELSE IF g.offset + b.size > Len(g.buf)
             THEN [kind |-> "Fault", cache |-> g.cache]
             ELSE dz_blocks(blocks, i + 1,
                            push_segment(segments,
                                parse_data(SubSeq(g.buf, g.offset + 1,
                                                  g.offset + b.size),
                                           sametypesequence)),
                            g.cache)

dz_get_definition(c, idx) ==
    LET r == dz_blocks(idx.blocks, 1, << >>, c)
    IN  [def |-> IF r.kind = "Done" THEN definition(idx.word, r.segments)
                 ELSE [kind |-> r.kind],
         cache |-> r.cache]

\* The dict reader opened on a stream, plain and dictzipped, under an Ifo
\* with or without sametypesequence ("m").
DInit ==
    /\ \E d \in SeqsUpTo(Bytes, MaxLen) : \E cl \in 1..MaxChunkLen : DzOpen(d, cl)
    /\ sametypesequence \in {<< >>, <<109>>}
    /\ entry = << >>
    /\ defPlain = [kind |-> "none"]
    /\ defDz = [kind |-> "none"]
    /\ nlook = 0

\* One call of get_definition on each reader.  A panic ends the reader.
dict_get_definition ==
    /\ nlook < MaxLookups
    /\ defDz.kind # "Fault"
    /\ \E idx \in Entries :
         LET r == dz_get_definition(cache, idx)
         IN  /\ entry' = idx
             /\ defPlain' = plain_get_definition(idx)
             /\ \E k \in Outcomes(r.def.kind) :
                    defDz' = IF k = r.def.kind THEN r.def ELSE [kind |-> k]
             /\ cache' = r.cache
    /\ nlook' = nlook + 1
    /\ UNCHANGED <<data, chunk_length, chunks, data_offset, dzfile,
                   zreq, zres, sametypesequence>>

\* The other parts' specifications leave the readers unopened.
ZIdle ==
    /\ DzOpen(<< >>, 1)
    /\ DictIdle

(***************************************************************************)
(* Part III.  Index lookup, the uncached path and the cache backends.      *)
(***************************************************************************)

\* Bound: the number of rows of the .idx file.
MaxRaw == 2

\* Bound: the number of records of the .syn file.
MaxSyn == 1

\* Words are byte strings: "", "a", "A", "b" are the headwords of .idx rows,
\* "", "a", "c" the words of .syn records, "a", "A", "b", "c" the queries.
HeadWords == {<< >>, <<97>>, <<65>>, <<98>>}

SynWords == {<< >>, <<97>>, <<99>>}

Queries == {<<97>>, <<65>>, <<98>>, <<99>>}

\* The .dict file of the dictionaries looked up: 'A' and a NUL byte.  The
\* block of a row is 'A', the NUL, or the byte past the end.
LookupData == <<65, 0>>

RawRows == [word : HeadWords, offset : {0, 1, 2}, size : {1}]

SynRecs == [word : SynWords, index : 0..MaxRaw]

VARIABLES
    rawidx,      \* the rows of the .idx file, as read_items returns them
    synfile,     \* the .syn file: whether it exists, and its records
    items,       \* Idx.items: lowercase headword -> IdxEntry
    syn,         \* Idx.syn: whether Some, and lowercase word -> set of keys
    sq_loaded,   \* the sqlite cache is populated and the handle Loaded
    sq_word,     \* table word: rows (word, definition), the id is the index
    sq_segment,  \* table segment: rows (word_id, types, text)
    sq_alias,    \* table alias: rows (word, aliases)
    sled_exists, \* the sled cache directory exists
    sled_idx,    \* the sled idx tree: key -> bytes
    sled_syn,    \* the sled syn tree: key -> bytes
    sled_handle, \* how StarDictCachedSled::new ended: "none" before
    query,       \* the last word looked up
    blocksU,     \* the entries Idx::lookup_blocks found for it
    resU,        \* its result on the uncached path
    resSq,       \* its result on the sqlite cache
    resSled      \* its result on the sled cache

lvars == <<rawidx, synfile, items, syn, sq_loaded, sq_word, sq_segment,
           sq_alias, sled_exists, sled_idx, sled_syn, sled_handle, query,
           blocksU, resU, resSq, resSled>>

\* str::to_lowercase on the ASCII letters of the model.
to_lowercase(w) ==
    [i \in 1..Len(w) |-> IF w[i] \in 65..90 THEN w[i] + 32 ELSE w[i]]

\* The orders in which a HashMap or a HashSet may hand out its elements.
Orders(S) ==
    {o \in [1..Cardinality(S) -> S] :
        \A i \in DOMAIN o : \A j \in DOMAIN o : i # j => o[i] # o[j]}

\* idx.rs read, lines 102-110: the items map after the first n rows.  A row
\* with an empty word is left out; the first row of a key gives the entry
\* its word, every row of the key a block.
RECURSIVE read(_, _)
read(vec, n) ==
    IF n = 0 THEN << >>
    ELSE LET m == read(vec, n - 1)
             raw == vec[n]
             key == to_lowercase(raw.word)
             block == [offset |-> raw.offset, size |-> raw.size]
         IN  IF raw.word = << >> THEN m
             ELSE IF key \in DOMAIN m
             THEN [m EXCEPT ![key].blocks = Append(@, block)]
             ELSE [k \in DOMAIN m \cup {key} |->
                     IF k = key THEN [word |-> raw.word, blocks |-> <<block>>]
                     ELSE m[k]]

\* syn.entry(k).or_insert(HashSet::new()).insert(a)
alias_insert(m, k, a) ==
    [j \in DOMAIN m \cup {k} |->
        IF j = k THEN (IF k \in DOMAIN m THEN m[k] ELSE {}) \cup {a} ELSE m[j]]

\* load_syn without the reverse alias of lines 180-185.
RECURSIVE load_syn_forward_only(_, _, _, _)
load_syn_forward_only(vec, recs, its, n) ==
    IF n = 0 THEN << >>
    ELSE LET m == load_syn_forward_only(vec, recs, its, n - 1)
             word == recs[n].word
             index == recs[n].index
         IN  IF word = << >> \/ index >= Len(vec) THEN m
             ELSE alias_insert(m, to_lowercase(word),
                               to_lowercase(vec[index + 1].word))

\* idx.rs load_syn: the syn map after the first n records.  A record names
\* a row of the .idx file by its index; the row's word goes in lowercase,
\* empty or not, and the reverse alias is added when the record's word is a
\* key of items.
RECURSIVE load_syn(_, _, _, _)
load_syn(vec, recs, its, n) ==
    IF n = 0 THEN << >>
    ELSE LET m == load_syn(vec, recs, its, n - 1)
             word == recs[n].word
             index == recs[n].index
             lowercase_word == to_lowercase(word)
         IN  IF word = << >> \/ index >= Len(vec) THEN m
             ELSE LET target == to_lowercase(vec[index + 1].word)
                      fwd == alias_insert(m, lowercase_word, target)
                  IN  IF lowercase_word \in DOMAIN its
                      THEN alias_insert(fwd, target, lowercase_word)
                      ELSE fwd

\* The loop without the found set: every candidate that has a value is
\* pushed.
RECURSIVE push_all(_, _, _)
push_all(vec, cands, i) ==
    IF i > Len(cands) THEN vec
    ELSE IF cands[i].kind = "Some"
    THEN push_all(Append(vec, cands[i].val), cands, i + 1)
    ELSE push_all(vec, cands, i + 1)

\* The lookups' common loop: push the candidates of cands, from the i-th on,
\* that have a value whose word is not in the result yet.
RECURSIVE push_unique(_, _, _)
push_unique(vec, cands, i) ==
    IF i > Len(cands) THEN vec
    ELSE IF /\ cands[i].kind = "Some"
            /\ \A j \in 1..Len(vec) : vec[j].word # cands[i].val.word
    THEN push_unique(Append(vec, cands[i].val), cands, i + 1)
    ELSE push_unique(vec, cands, i + 1)

Opt(present, val) == IF present THEN [kind |-> "Some", val |-> val] ELSE [kind |-> "None"]

\* The aliases of a lowercase word in Idx.syn.
aliases_of(lowercase_word) ==
    IF syn.present /\ lowercase_word \in DOMAIN syn.map
    THEN syn.map[lowercase_word] ELSE {}

\* Idx::lookup_blocks(word), the alias set iterated in the order ord: the
\* entries found, empty for None.
lookup_blocks(word, ord) ==
    LET lowercase_word == to_lowercase(word)
        keys == <<lowercase_word>> \o ord
    IN  push_unique(<< >>,
                    [i \in 1..Len(keys) |->
                        Opt(keys[i] \in DOMAIN items,
                            IF keys[i] \in DOMAIN items THEN items[keys[i]]
                            ELSE << >>)],
                    1)

\* The definitions of the entries that decode, in order.
RECURSIVE decode_all(_, _)
decode_all(blocks, i) ==
    IF i > Len(blocks) THEN << >>
    ELSE LET r == plain_get_definition(blocks[i])
         IN  (IF r.kind = "Some"
              THEN <<[word |-> r.word, segments |-> r.segments]>> ELSE << >>)
               \o decode_all(blocks, i + 1)

\* stardict.rs StarDict::lookup(word): None when lookup_blocks finds no
\* entry, else Some of the definitions that decode.
uncached_lookup(word, ord) ==
    LET blocks == lookup_blocks(word, ord)
    IN  IF Len(blocks) = 0 THEN [kind |-> "None"]
        ELSE [kind |-> "Some", defs |-> decode_all(blocks, 1)]

\* The rows of table word and table segment that import_cache inserts
\* for the keys of iord from the i-th on, after the rows w and sg: an entry
\* without a definition is passed over.
RECURSIVE sq_import_items(_, _, _, _)
sq_import_items(iord, i, w, sg) ==
    IF i > Len(iord) THEN [word |-> w, segment |-> sg]
    ELSE LET d == plain_get_definition(items[iord[i]])
         IN  IF d.kind # "Some" THEN sq_import_items(iord, i + 1, w, sg)
             ELSE sq_import_items(iord, i + 1,
                    Append(w, [word |-> to_lowercase(iord[i]),
                               definition |-> d.word]),
                    sg \o [j \in 1..Len(d.segments) |->
                              [word_id |-> Len(w) + 1,
                               types |-> d.segments[j].types,
                               text |-> d.segments[j].text]])

\* The rows of table alias: one per key of Idx.syn, the alias set written
\* as a JSON array in the order the set hands its elements out.
sq_import_alias(kord, aord) ==
    [i \in 1..Len(kord) |->
        [word |-> to_lowercase(kord[i]), aliases |-> aord[kord[i]]]]

\* stardict_sqlite.rs query_definition: the row of the least id with the
\* word, and the segments of that id in rowid order.
query_definition(lowercase_word) ==
    LET ids == {i \in 1..Len(sq_word) : sq_word[i].word = lowercase_word}
    IN  IF ids = {} THEN [kind |-> "None"]
        ELSE LET word_id == CHOOSE i \in ids : \A j \in ids : i <= j
                 rows == SelectSeq(sq_segment, LAMBDA r : r.word_id = word_id)
             IN  [kind |-> "Some",
                  val |-> [word |-> sq_word[word_id].definition,
                           segments |-> [j \in 1..Len(rows) |->
                                           [types |-> rows[j].types,
                                            text |-> rows[j].text]]]]

\* StarDictCachedSqlite::lookup_db on the populated cache.
sq_lookup_db(lowercase_word) ==
    LET rows == SelectSeq(sq_alias, LAMBDA r : r.word = lowercase_word)
        aliases == IF synfile.present /\ Len(rows) > 0 THEN rows[1].aliases
                   ELSE << >>
        keys == <<lowercase_word>> \o aliases
        vec == push_unique(<< >>,
                           [i \in 1..Len(keys) |-> query_definition(keys[i])], 1)
    IN  IF Len(vec) = 0 THEN [kind |-> "None"]
        ELSE [kind |-> "Some", defs |-> vec]

\* The value stardict_sled.rs import_cache stores for a definition: the
\* word, then the types and the text of every segment, each followed by a
\* NUL.
sled_encode(d) ==
    d.word \o <<0>>
      \o Concat([j \in 1..Len(d.segments) |->
                   d.segments[j].types \o <<0>> \o d.segments[j].text \o <<0>>])

\* The idx tree after import_cache has gone through the keys of iord from
\* the i-th on: it returns Err at the first entry without a definition and
\* leaves what it has inserted.
RECURSIVE sled_import_items(_, _, _)
sled_import_items(iord, i, tree) ==
    IF i > Len(iord) THEN [ok |-> TRUE, tree |-> tree]
    ELSE LET d == plain_get_definition(items[iord[i]])
             key == to_lowercase(iord[i])
         IN  IF d.kind # "Some" THEN [ok |-> FALSE, tree |-> tree]
             ELSE sled_import_items(iord, i + 1,
                    [k \in DOMAIN tree \cup {key} |->
                        IF k = key THEN sled_encode(d) ELSE tree[k]])

\* The syn tree import_cache writes: per key the aliases, in lowercase,
\* each followed by a NUL.
sled_import_syn(aord) ==
    [k \in {to_lowercase(key) : key \in DOMAIN aord} |->
        LET key == CHOOSE key \in DOMAIN aord : to_lowercase(key) = k
        IN  Concat([j \in 1..Len(aord[key]) |->
                      to_lowercase(aord[key][j]) \o <<0>>])]

\* stardict_sled.rs import_cache on a cache directory that does not exist.
\* The syn tree is always opened, and filled from idx.syn.unwrap(): a panic
\* when the dictionary has no .syn file.
sled_import_cache(iord, aord) ==
    LET r == sled_import_items(iord, 1, << >>)
    IN  IF ~r.ok THEN [end |-> "Err", idx |-> r.tree, syn |-> << >>]
        ELSE IF ~syn.present THEN [end |-> "Fault", idx |-> r.tree, syn |-> << >>]
        ELSE [end |-> "Ok", idx |-> r.tree, syn |-> sled_import_syn(aord)]

\* The loop of get_strings: the strings of buf, each up to its NUL; the
\* index runs out of the buffer (a panic) when the last one has none.
RECURSIVE split_nul(_)
split_nul(buf) ==
    IF buf = << >> THEN [ok |-> TRUE, strings |-> << >>]
    ELSE IF \A i \in 1..Len(buf) : buf[i] # 0
    THEN [ok |-> FALSE, strings |-> << >>]
    ELSE LET end == CHOOSE i \in 1..Len(buf) :
                       buf[i] = 0 /\ \A j \in 1..(i - 1) : buf[j] # 0
             rest == split_nul(SubSeq(buf, end + 1, Len(buf)))
         IN  [ok |-> rest.ok,
              strings |-> <<SubSeq(buf, 1, end - 1)>> \o rest.strings]

\* stardict_sled.rs get_strings(db, key).
get_strings(tree, lowercase_key) ==
    IF lowercase_key \notin DOMAIN tree THEN [kind |-> "None"]
    ELSE LET r == split_nul(tree[lowercase_key])
         IN  IF r.ok THEN [kind |-> "Some", val |-> r.strings]
             ELSE [kind |-> "Fault"]

\* stardict_sled.rs get_definition(db, key): the first string is the word,
\* the others are taken two by two as types and text; unwrap panics when
\* there is no first string or a types string has no text after it.
sled_get_definition(tree, lowercase_key) ==
    LET r == get_strings(tree, lowercase_key)
    IN  IF r.kind # "Some" THEN r
        ELSE IF Len(r.val) = 0 \/ (Len(r.val) - 1) % 2 # 0 THEN [kind |-> "Fault"]
        ELSE [kind |-> "Some",
              val |-> [word |-> r.val[1],
                       segments |-> [j \in 1..((Len(r.val) - 1) \div 2) |->
                                       [types |-> r.val[2 * j],
                                        text |-> r.val[2 * j + 1]]]]]

\* StarDictCachedSled::lookup(word).
sled_lookup(word) ==
    LET lowercase_word == to_lowercase(word)
        alias == get_strings(sled_syn, lowercase_word)
        keys == <<lowercase_word>>
                  \o (IF alias.kind = "Some" THEN alias.val ELSE << >>)
        cands == [i \in 1..Len(keys) |-> sled_get_definition(sled_idx, keys[i])]
        vec == push_unique(<< >>, cands, 1)
    IN  IF alias.kind = "Fault" \/ \E i \in 1..Len(cands) : cands[i].kind = "Fault"
        THEN [kind |-> "Fault"]
        ELSE IF Len(vec) = 0 THEN [kind |-> "None"]
        ELSE [kind |-> "Some", defs |-> vec]

\* The order of every alias set of Idx.syn.
RECURSIVE AliasOrdersOver(_)
AliasOrdersOver(K) ==
    IF K = {} THEN {<< >>}
    ELSE LET k == CHOOSE j \in K : TRUE
         IN  {[j \in K |-> IF j = k THEN o ELSE f[j]] :
                 f \in AliasOrdersOver(K \ {k}), o \in Orders(syn.map[k])}

AliasOrders == AliasOrdersOver(DOMAIN syn.map)

\* The state of the lookup variables while no dictionary is looked up.
NoCache ==
    /\ sq_loaded = FALSE
    /\ sq_word = << >> /\ sq_segment = << >> /\ sq_alias = << >>
    /\ sled_exists = FALSE
    /\ sled_idx = << >> /\ sled_syn = << >>
    /\ sled_handle = "none"
    /\ query = << >>
    /\ blocksU = << >>
    /\ resU = [kind |-> "none"]
    /\ resSq = [kind |-> "none"]
    /\ resSled = [kind |-> "none"]

LIdle ==
    /\ rawidx = << >>
    /\ synfile = [present |-> FALSE, recs |-> << >>]
    /\ items = << >>
    /\ syn = [present |-> FALSE, map |-> << >>]
    /\ NoCache

\* A dictionary with sametypesequence "m" and a plain .dict file, its .idx
\* and .syn files read by Idx::new; no cache yet.
LInit ==
    /\ DzOpen(LookupData, 1)
    /\ sametypesequence = <<109>>
    /\ entry = << >>
    /\ defPlain = [kind |-> "none"]
    /\ defDz = [kind |-> "none"]
    /\ nlook = 0
    /\ rawidx \in SeqsUpTo(RawRows, MaxRaw)
    /\ synfile \in {[present |-> FALSE, recs |-> << >>]}
                     \cup [present : {TRUE}, recs : SeqsUpTo(SynRecs, MaxSyn)]
    /\ items = read(rawidx, Len(rawidx))
    /\ syn = [present |-> synfile.present,
              map |-> load_syn(rawidx, synfile.recs, items, Len(synfile.recs))]
    /\ NoCache

\* The populator's import_cache, committed: the handle becomes Loaded.
sqlite_import_cache ==
    /\ ~sq_loaded
    /\ \E iord \in Orders(DOMAIN items) : \E kord \in Orders(DOMAIN syn.map) :
       \E aord \in AliasOrders :
         LET r == sq_import_items(iord, 1, << >>, << >>)
         IN  /\ sq_word' = r.word
             /\ sq_segment' = r.segment
             /\ sq_alias' = IF syn.present THEN sq_import_alias(kord, aord)
                            ELSE << >>
    /\ sq_loaded' = TRUE
    /\ UNCHANGED <<rawidx, synfile, items, syn, sled_exists, sled_idx, sled_syn,
                   sled_handle, query, blocksU, resU, resSq, resSled>>

\* StarDictCachedSled::new: import_cache when the cache directory does not
\* exist, else the trees that are there.
sled_new ==
    /\ sled_handle # "Ok"
    /\ IF ~sled_exists
       THEN \E iord \in Orders(DOMAIN items) : \E aord \in AliasOrders :
              LET r == sled_import_cache(iord, aord)
              IN  /\ sled_idx' = r.idx
                  /\ sled_syn' = r.syn
                  /\ sled_handle' = r.end
       ELSE /\ sled_handle' = "Ok"
            /\ UNCHANGED <<sled_idx, sled_syn>>
    /\ sled_exists' = TRUE
    /\ UNCHANGED <<rawidx, synfile, items, syn, sq_loaded, sq_word, sq_segment,
                   sq_alias, query, blocksU, resU, resSq, resSled>>

\* One word looked up on the uncached path and on every cache that has a
\* handle.
lookup_word ==
    /\ resSled.kind # "Fault"
    /\ \E w \in Queries : \E ord \in Orders(aliases_of(to_lowercase(w))) :
         /\ query' = w
         /\ blocksU' = lookup_blocks(w, ord)
         /\ resU' = uncached_lookup(w, ord)
         /\ resSq' = IF sq_loaded THEN sq_lookup_db(to_lowercase(w))
                     ELSE [kind |-> "none"]
         /\ resSled' = IF sled_handle = "Ok" THEN sled_lookup(w)
                       ELSE [kind |-> "none"]
    /\ UNCHANGED <<rawidx, synfile, items, syn, sq_loaded, sq_word, sq_segment,
                   sq_alias, sled_exists, sled_idx, sled_syn, sled_handle>>

(***************************************************************************)
(* Part IV.  The dictzip header.                                           *)
(***************************************************************************)

\* The 16-bit values of the header fields the runs go through.
RaSizes == {0, 5, 6, 8, 10, 65534}

ChunkCounts == {0, 1, 2, 32767, 32768, 32769}

\* The number of 16-bit words the file holds after the chunk_count field.
FileWords == {0, 2, 40000}

VARIABLES
    hdr,      \* the header of the .dict.dz file being opened
    opened    \* how DictZip::new ended: "none" before

hvars == <<hdr, opened>>

\* u16 arithmetic.  An operation whose result leaves 0..65535 panics in a
\* build with overflow checks and wraps in a build without.
U16 == 65536

u16(checked, n) ==
    IF n \in 0..(U16 - 1) THEN [ok |-> TRUE, val |-> n]
    ELSE IF checked THEN [ok |-> FALSE, val |-> 0]
    ELSE [ok |-> TRUE, val |-> n % U16]

\* The reads of the chunk sizes, read_chunks lines 183-186, for count chunks
\* with words words left in the file, ra_read being 6 before: read_u16 adds
\* 2 to ra_read and then reads.  The end is "ok", "io" (the file ends) or
\* "panic" (ra_read overflows), and ra_read after it.
read_sizes(checked, count, words) ==
    LET tries == IF words < count THEN words + 1 ELSE count
    IN  IF checked /\ 6 + 2 * tries >= U16 THEN [end |-> "panic", ra_read |-> 0]
        ELSE [end |-> IF words < count THEN "io" ELSE "ok",
              ra_read |-> (6 + 2 * tries) % U16]

\* dictzip.rs read_chunks on a header whose first sub-field is RA:
\* "ok", "io" (an io::Error), "parse" (FailedParseDictHeader) or "panic".
hdr_read_chunks(checked, h) ==
    IF h.extra_len = 0 THEN "parse"
    ELSE LET left == u16(checked, h.extra_len - 2)
         IN  IF ~left.ok THEN "panic"
             ELSE IF left.val = 0 THEN "parse"
             ELSE IF h.version # 1 THEN "parse"
             ELSE LET ra_left == u16(checked, h.ra_size - 6)
                      twice == u16(checked, h.chunk_count * 2)
                  IN  IF ~ra_left.ok \/ ~twice.ok THEN "panic"
                      ELSE IF ra_left.val # twice.val THEN "parse"
                      ELSE LET r == read_sizes(checked, h.chunk_count, h.words)
                               rest == u16(checked, h.extra_len - 4)
                               skip == u16(checked, rest.val - r.ra_read)
                           IN  IF r.end # "ok" THEN r.end
                               ELSE IF ~rest.ok \/ ~skip.ok THEN "panic"
                               ELSE "ok"

\* DictZip::new: the header checks, then read_chunks with every error of
\* it turned into InvalidDict by map_err.
hdr_new(checked, h) ==
    IF ~h.flag_extra THEN "FailedParseDictHeader"
    ELSE LET r == hdr_read_chunks(checked, h)
         IN  CASE r = "ok" -> "Ok"
               [] r = "panic" -> "Fault"
               [] OTHER -> "InvalidDict"

\* A gzip header with the deflate method, no name, comment or CRC, and RA
\* as its first extra sub-field; extra_len covers the RA sub-field when 16
\* bits can hold that.
HInit ==
    /\ hdr \in {[flag_extra |-> f, ra_size |-> r, version |-> v,
                 chunk_count |-> c, words |-> w,
                 extra_len |-> IF r + 4 < U16 THEN r + 4 ELSE U16 - 1] :
                  f \in BOOLEAN, r \in RaSizes, v \in {1, 2},
                  c \in ChunkCounts, w \in FileWords}
    /\ opened = "none"

HIdle ==
    /\ hdr = [flag_extra |-> FALSE, extra_len |-> 0, ra_size |-> 0,
              version |-> 1, chunk_count |-> 0, words |-> 0]
    /\ opened = "none"

\* DictZip::new on the file, in a build with or without overflow checks.
dz_new ==
    /\ opened = "none"
    /\ \E checked \in BOOLEAN : opened' = hdr_new(checked, hdr)
    /\ UNCHANGED hdr

(***************************************************************************)
(* The specifications.                                                     *)
(***************************************************************************)

vars == <<pvars, zvars, lvars, hvars>>

\* The sqlite cache protocol.
Init == PInit /\ ZIdle /\ LIdle /\ HIdle

Next == PNext /\ UNCHANGED <<zvars, lvars, hvars>>

Spec == Init /\ [][Next]_vars

\* Range reads on a dictzip reader.
InitDz == PInit /\ ZInit /\ LIdle /\ HIdle

NextDz == dz_get_text /\ UNCHANGED <<pvars, lvars, hvars>>

SpecDz == InitDz /\ [][NextDz]_vars

\* Range reads of a dictzip file that may be damaged after it was written:
\* cut short by one byte (the read of the last chunk fails) or with one byte
\* of the compressed data zeroed (the chunk does not inflate).
Damaged(file, from) ==
    {file}
      \cup (IF Len(file) > from THEN {SubSeq(file, 1, Len(file) - 1)} ELSE {})
      \cup {[file EXCEPT ![i] = 0] : i \in (from + 1)..Len(file)}

InitDzBad ==
    /\ PInit /\ LIdle /\ HIdle /\ DictIdle
    /\ \E d \in SeqsUpTo(Bytes, MaxLen) : \E cl \in 1..MaxChunkLen :
         /\ data = d
         /\ chunk_length = cl
         /\ chunks = DzChunks(d, cl)
         /\ data_offset = HeaderLen(ChunkCount(d, cl))
         /\ dzfile \in Damaged(DzFile(d, cl), HeaderLen(ChunkCount(d, cl)))
    /\ cache = << >>
    /\ zreq = NoReq
    /\ zres = [kind |-> "none"]

SpecDzBad == InitDzBad /\ [][NextDz]_vars

\* Entry lookups on the two dict readers.
InitDict == PInit /\ DInit /\ LIdle /\ HIdle

NextDict == dict_get_definition /\ UNCHANGED <<pvars, lvars, hvars>>

SpecDict == InitDict /\ [][NextDict]_vars

\* Word lookups on the uncached path and on the caches.
InitLookup == PInit /\ LInit /\ HIdle

NextLookup ==
    /\ \/ sqlite_import_cache
       \/ sled_new
       \/ lookup_word
    /\ UNCHANGED <<pvars, zvars, hvars>>

SpecLookup == InitLookup /\ [][NextLookup]_vars

\* Lookups in a dictionary whose entries all lie at the start of the .dict
\* file: the index and the synonym table vary, the blocks do not.
IdxRows == [word : HeadWords, offset : {0}, size : {1}]

InitIdx ==
    /\ PInit /\ HIdle
    /\ DzOpen(LookupData, 1)
    /\ sametypesequence = <<109>>
    /\ entry = << >>
    /\ defPlain = [kind |-> "none"]
    /\ defDz = [kind |-> "none"]
    /\ nlook = 0
    /\ rawidx \in SeqsUpTo(IdxRows, MaxRaw)
    /\ synfile \in {[present |-> FALSE, recs |-> << >>]}
                     \cup [present : {TRUE}, recs : SeqsUpTo(SynRecs, MaxSyn)]
    /\ items = read(rawidx, Len(rawidx))
    /\ syn = [present |-> synfile.present,
              map |-> load_syn(rawidx, synfile.recs, items, Len(synfile.recs))]
    /\ NoCache

\* No cache is opened: every lookup is the uncached one.
NextIdx == lookup_word /\ UNCHANGED <<pvars, zvars, hvars>>

SpecIdx == InitIdx /\ [][NextIdx]_vars

\* Lookups, uncached and through both caches, in a dictionary whose entries
\* all lie at the start of the .dict file, whose .idx file has no row that
\* Idx::read passes over (an empty word), and whose .syn file is present
\* and has no record that load_syn passes over (an empty word, an index
\* past the rows of a full .idx file).
DedupRows == [word : HeadWords \ {<< >>}, offset : {0}, size : {1}]

DedupRecs == [word : SynWords \ {<< >>}, index : 0..(MaxRaw - 1)]

InitDedup ==
    /\ PInit /\ HIdle
    /\ DzOpen(LookupData, 1)
    /\ sametypesequence = <<109>>
    /\ entry = << >>
    /\ defPlain = [kind |-> "none"]
    /\ defDz = [kind |-> "none"]
    /\ nlook = 0
    /\ rawidx \in SeqsUpTo(DedupRows, MaxRaw)
    /\ synfile \in [present : {TRUE}, recs : SeqsUpTo(DedupRecs, MaxSyn)]
    /\ items = read(rawidx, Len(rawidx))
    /\ syn = [present |-> synfile.present,
              map |-> load_syn(rawidx, synfile.recs, items, Len(synfile.recs))]
    /\ NoCache

SpecDedup == InitDedup /\ [][NextLookup]_vars

\* Opens of a dictzip file.
InitHdr == PInit /\ ZIdle /\ LIdle /\ HInit

NextHdr == dz_new /\ UNCHANGED <<pvars, zvars, lvars>>

SpecHdr == InitHdr /\ [][NextHdr]_vars

\* The scheduler runs a thread that can run, and a caller that retries keeps
\* calling lookup; nothing obliges a statement to fail or a process to die.
FairSpec ==
    /\ Spec
    /\ \A p \in Procs :
          /\ WF_pvars(import_begin(p))
          /\ WF_pvars(import_word(p))
          /\ WF_pvars(import_status(p))
          /\ WF_pvars(import_commit(p))
          /\ WF_pvars(lookup(p))

(***************************************************************************)
(* Part I: the claims.                                                     *)
(***************************************************************************)

\* The init_status p's own read-write connection reads.
OwnStatus(p) == IF tx[p].open THEN tx[p].status ELSE files[wconn[p]].status

\* Process a is initialising the cache file it created, which the path
\* still names, and has not committed.
FreshInit(a) ==
    /\ alive[a] /\ wconn[a] # 0 /\ wconn[a] = path
    /\ deeds[a] \subseteq {"create", "write"} /\ "create" \in deeds[a]
    /\ \/ pc[a] \in {"init_db", "init_pid"}
       \/ db[a] = "Init" /\ thr[a] \in {"spawned", "import", "commit"}

\* C1 (as claimed).  While process a, alive throughout, initialises a fresh
\* cache, a process b that has opened that file never fails its open, ends
\* the open in InitByOther, gets CacheInitiating from every lookup, and
\* never creates, removes or writes the cache file; once a has committed
\* init_status = "success", b's next lookup makes it Loaded.
C1_ConcurrentCacheInit ==
    [][\A a \in Procs : \A b \in Procs \ {a} :
          /\ (FreshInit(a) /\ alive'[a] /\ alive[b] /\ conn[b] = wconn[a]) =>
                /\ pc'[b] # "failed"
                /\ (pc[b] # "done" /\ pc'[b] = "done") => db'[b] = "InitByOther"
                /\ lookup(b) => (res'[b].kind = "CacheInitiating" /\ db'[b] = db[b])
                /\ deeds'[b] = {}
          /\ (/\ db[b] = "InitByOther" /\ conn[b] = path
              /\ files[conn[b]].pid = a /\ alive[a]
              /\ files[conn[b]].status = "success" /\ lookup(b)) =>
                (db'[b] = "Loaded" /\ deeds'[b] = {})
    ]_vars

\* C2.  An open that returns a handle returns the one its observation
\* selects: absent -> Init with the file there, its meta holding the
\* opener's pid and init_status "start", and the populator spawned;
\* "success" -> Loaded; "start" and a live init_pid -> InitByOther, the file
\* untouched by the opener; "start" and a dead init_pid -> the opener
\* removed the file and returns Init as in the first case.
InitSelf(p) ==
    /\ db[p] = "Init" /\ thr[p] = "spawned"
    /\ wconn[p] \in 1..Len(files)
    /\ files[wconn[p]].tables
    /\ files[wconn[p]].status = "start"
    /\ files[wconn[p]].pid = p
    /\ "write" \in deeds[p]

OpenEndsAsObserved(p) ==
    CASE obs[p] = "absent"  -> InitSelf(p) /\ "remove" \notin deeds[p]
      [] obs[p] = "success" -> db[p] = "Loaded" /\ deeds[p] = {}
      [] obs[p] = "alive"   -> db[p] = "InitByOther" /\ deeds[p] = {}
      [] obs[p] = "dead"    -> InitSelf(p) /\ "remove" \in deeds[p]
      [] OTHER -> FALSE

C2_OpenStateByObservation ==
    [][\A p \in Procs :
          (pc[p] # "done" /\ pc'[p] = "done") => OpenEndsAsObserved(p)']_vars

\* C2 witness: one open took over from a dead initialiser and returned
\* Init, and another open found that initialiser alive and returned
\* InitByOther.
C2_Witness ==
    \E p \in Procs : \E q \in Procs \ {p} :
        /\ pc[p] = "done" /\ obs[p] = "dead" /\ db[p] = "Init"
        /\ "remove" \in deeds[p]
        /\ pc[q] = "done" /\ obs[q] = "alive" /\ db[q] = "InitByOther"
        /\ conn[q] = wconn[p]

\* C3.  Whatever a connection reads as init_status = "success", committed
\* in a file or pending in the populator's own transaction, comes with
\* every word row: no connection sees "success" on a partial cache.
C3_SuccessImpliesComplete ==
    /\ \A i \in 1..Len(files) :
          files[i].status = "success" => files[i].words = NumWords
    /\ \A p \in Procs :
          (tx[p].open /\ tx[p].status = "success") => tx[p].words = NumWords

\* C3 witness: a reader in another process is Loaded on a file that reads
\* "success" and was populated by a live populator.
C3_Witness ==
    \E p \in Procs : \E q \in Procs \ {p} :
        /\ db[q] = "Loaded" /\ conn[q] # 0
        /\ files[conn[q]].status = "success"
        /\ files[conn[q]].pid = p /\ thr[p] = "done"
        /\ res[q].kind = "Ok"

\* C4 (as claimed).  A handle in Init or InitByOther whose initialising
\* process stays alive is eventually Loaded.
Waiting(p) == alive[p] /\ db[p] \in {"Init", "InitByOther"}

InitialiserGone(p) ==
    \/ ~alive[p]
    \/ db[p] = "InitByOther" /\ files[conn[p]].pid \in Procs
          /\ ~alive[files[conn[p]].pid]

C4_CacheInitiatingRecoverable ==
    \A p \in Procs : Waiting(p) ~> (db[p] = "Loaded" \/ InitialiserGone(p))

\* C5 (as claimed).  A lookup on a handle in Init makes it Loaded and
\* answers when the populator's lock is free and init_status reads
\* "success"; in every other case it returns CacheInitiating and leaves
\* the handle as it is.
C5_LookupInit ==
    [][\A p \in Procs : (db[p] = "Init" /\ lookup(p)) =>
          IF thr[p] \notin {"import", "commit"} /\ OwnStatus(p) = "success"
          THEN db'[p] = "Loaded" /\ res'[p].kind = "Ok"
          ELSE db'[p] = "Init" /\ res'[p].kind = "CacheInitiating"]_vars

\* C6 (as claimed).  A lookup on a handle in InitByOther that reads
\* init_status = "success" makes it Loaded and answers; any other returns
\* CacheInitiating and leaves the handle InitByOther.
C6_LookupInitByOther ==
    [][\A p \in Procs : (db[p] = "InitByOther" /\ lookup(p)) =>
          IF files[conn[p]].status = "success"
          THEN db'[p] = "Loaded" /\ res'[p].kind = "Ok"
          ELSE db'[p] = "InitByOther" /\ res'[p].kind = "CacheInitiating"]_vars

(***************************************************************************)
(* Part II: the claims.                                                    *)
(***************************************************************************)

\* What gzip -d gives for the dictzip file: every chunk inflated in turn
\* from data_offset on.
RECURSIVE InflateFrom(_, _)
InflateFrom(i, pos) ==
    IF i > Len(chunks) THEN << >>
    ELSE inflate_bytes(SubSeq(dzfile, pos + 1, pos + chunks[i])).out
           \o InflateFrom(i + 1, pos + chunks[i])

full_decompress == InflateFrom(1, data_offset)

\* A request whose range lies inside the uncompressed stream and has a last
\* byte position offset + size - 1 for the chunk arithmetic to start from.
InStream(r) ==
    /\ r.offset + r.size >= 1
    /\ r.offset + r.size <= Len(full_decompress)

C9_PlainDzSameDefinition ==
    (/\ nlook > 0
     /\ \A i \in 1..Len(entry.blocks) : entry.blocks[i].size >= 1
     /\ defDz.kind # "Fault") => defPlain = defDz

\* C10 (as claimed).  For a range of at least one byte, on the plain reader
\* and on the dictzip reader: a range ending at dict_size is read, and a
\* range ending one byte later yields no value.
C10_EndOfStreamBoundary ==
    (zres.kind # "none" /\ zreq.size >= 1) =>
        /\ zreq.offset + zreq.size = Len(data) =>
              /\ plain_read(zreq.offset, zreq.size).kind = "Some"
              /\ zres.kind = "Some"
        /\ zreq.offset + zreq.size = Len(data) + 1 =>
              /\ plain_read(zreq.offset, zreq.size).kind = "None"
              /\ zres.kind = "None"

\* A block decodes when it lies inside the .dict stream and, without a
\* sametypesequence, has a type byte and at least one byte after it.
block_decodes(b) ==
    /\ b.offset + b.size <= Len(data)
    /\ Len(sametypesequence) > 0 \/ b.size >= 2

\* The segments of the blocks that decode, in block order, from block i on.
RECURSIVE decoded_segments(_, _)
decoded_segments(blocks, i) ==
    IF i > Len(blocks) THEN << >>
    ELSE LET b == blocks[i]
             bytes == SubSeq(data, b.offset + 1, b.offset + b.size)
             seg == IF Len(sametypesequence) > 0
                    THEN [types |-> sametypesequence, text |-> buf_to_string(bytes)]
                    ELSE [types |-> <<bytes[1]>>, text |-> buf_to_string(Tail(bytes))]
         IN  (IF block_decodes(b) THEN <<seg>> ELSE << >>)
               \o decoded_segments(blocks, i + 1)

\* C11 (as claimed), on entries whose blocks are not empty and make no
\* reader fault: get_definition, plain or dictzipped, returns the segments
\* of the blocks that decode, in block order, and no value only when no
\* block decodes.
C11_SkipsFailingBlocks ==
    (/\ nlook > 0
     /\ \A i \in 1..Len(entry.blocks) : entry.blocks[i].size >= 1
     /\ defDz.kind # "Fault") =>
        LET segs == decoded_segments(entry.blocks, 1)
            want == IF Len(segs) = 0 THEN [kind |-> "None"]
                    ELSE [kind |-> "Some", word |-> entry.word, segments |-> segs]
        IN  defPlain = want /\ defDz = want

(***************************************************************************)
(* Part III: the claims.                                                   *)
(***************************************************************************)

\* C7 (as claimed).  A word looked up on a cache, sqlite once Loaded or
\* sled, gets what the uncached path returns: the same presence, the same
\* definitions and segments in the same order.
C7_CacheEqualsUncached ==
    /\ resSq.kind # "none" => resSq = resU
    /\ resSled.kind # "none" => resSled = resU

(***************************************************************************)
(* Part IV: the claims.                                                    *)
(***************************************************************************)

\* The RA sub-field of the header breaks the chunk-count invariant.
BreaksChunkCount(h) == h.ra_size - 6 # 2 * h.chunk_count

\* C12 (as claimed).  Opening a dictzip whose RA sub-field, of version 1,
\* has sub-field length - 6 # 2 * chunk_count ends in FailedParseDictHeader.
C12_ChunkCountChecked ==
    (opened # "none" /\ hdr.flag_extra /\ hdr.version = 1 /\ BreaksChunkCount(hdr))
        => opened = "FailedParseDictHeader"

(***************************************************************************)
(* Part III: the claims on the index.                                      *)
(***************************************************************************)

\* C13 (as claimed).  Every value of the synonym table is a key of items,
\* whatever rows of the .idx file the records of the .syn file name.
C13_SynValuesAreKeys ==
    \A k \in DOMAIN syn.map : syn.map[k] \subseteq DOMAIN items

Range(f) == {f[i] : i \in DOMAIN f}

\* The records of the .syn file that declare a headword as an alias of a
\* headword: the record's word is a key of items and its index names a row
\* with a non-empty word.
HeadwordAliases ==
    {r \in Range(synfile.recs) :
        /\ r.word # << >> /\ to_lowercase(r.word) \in DOMAIN items
        /\ r.index < Len(rawidx) /\ rawidx[r.index + 1].word # << >>}

\* C14.  When the .syn file declares the headword a as an alias of the
\* headword h, a lookup of a finds the entry of a first and the entry of h
\* as well (exactly these two, in this order, when h is the only alias of a
\* and another entry), and a lookup of h finds the entry of h first and the
\* entry of a as well.
C14_SymmetricSynonym ==
    query # << >> =>
      \A r \in HeadwordAliases :
        LET a == to_lowercase(r.word)
            h == to_lowercase(rawidx[r.index + 1].word)
            q == to_lowercase(query)
        IN  /\ q = a =>
                /\ blocksU # << >> /\ blocksU[1] = items[a]
                /\ items[h] \in Range(blocksU)
                /\ (aliases_of(a) = {h} /\ a # h)
                       => blocksU = <<items[a], items[h]>>
            /\ q = h =>
                /\ blocksU # << >> /\ blocksU[1] = items[h]
                /\ items[a] \in Range(blocksU)

\* The headword "b" was looked up; the .syn file declares "a", a headword,
\* as an alias of "b"; the lookup found both entries.
C14_Witness ==
    /\ query = <<98>>
    /\ \E r \in HeadwordAliases :
         /\ r.word = <<97>> /\ rawidx[r.index + 1].word = <<98>>
    /\ Len(blocksU) = 2
    /\ blocksU[1].word = <<98>>
    /\ to_lowercase(blocksU[2].word) = <<97>>

\* No two elements of the list have the same word.
NoWordTwice(defs) ==
    \A i \in DOMAIN defs : \A j \in DOMAIN defs :
        i # j => defs[i].word # defs[j].word

\* C15.  No headword appears twice in the result of a lookup: not in the
\* entries the index finds, not in the definitions of the uncached lookup,
\* of the sqlite cache or of the sled cache.
C15_NoHeadwordTwice ==
    /\ NoWordTwice(blocksU)
    /\ resU.kind = "Some" => NoWordTwice(resU.defs)
    /\ resSq.kind = "Some" => NoWordTwice(resSq.defs)
    /\ resSled.kind = "Some" => NoWordTwice(resSled.defs)

\* A word was looked up whose alias set contains its own key, and the
\* uncached lookup and both caches answered.
C15_Witness ==
    /\ query # << >>
    /\ to_lowercase(query) \in aliases_of(to_lowercase(query))
    /\ resU.kind = "Some" /\ Len(resU.defs) > 0
    /\ resSq.kind = "Some" /\ Len(resSq.defs) > 0
    /\ resSled.kind = "Some" /\ Len(resSled.defs) > 0

\* C16 (as claimed).  The uncached lookup never returns an empty list: when
\* no entry found for the query decodes the result is no value, otherwise
\* it is the list of the definitions that decode, in the order of the
\* entries.
C16_NeverEmptyList ==
    query # << >> =>
      LET defs == decode_all(blocksU, 1)
      IN  IF defs = << >> THEN resU = [kind |-> "None"]
          ELSE resU = [kind |-> "Some", defs |-> defs]

\* The entry of key k has a definition.
Decodes(k) == plain_get_definition(items[k]).kind = "Some"

\* C17 (as claimed).  When an entry of the index cannot be decoded, a cache
\* population of either backend still completes: the open succeeds and
\* every entry that decodes is stored.
C17_PopulationSkipsUndecodable ==
    (\E k \in DOMAIN items : ~Decodes(k)) =>
      /\ sq_loaded =>
           \A j \in DOMAIN items :
             Decodes(j) => \E i \in DOMAIN sq_word : sq_word[i].word = j
      /\ sled_exists =>
           /\ sled_handle = "Ok"
           /\ \A j \in DOMAIN items : Decodes(j) => j \in DOMAIN sled_idx

\* The blocks of the rows of the .idx file that have the key k, in the
\* order of the file.
RowBlocks(k) ==
    LET rows == SelectSeq(rawidx, LAMBDA r : r.word # << >> /\ to_lowercase(r.word) = k)
    IN  [i \in 1..Len(rows) |-> [offset |-> rows[i].offset, size |-> rows[i].size]]

\* The blocks of every entry are the blocks of its rows, at least one, in
\* the order of the file.
BlocksInFileOrder ==
    \A k \in DOMAIN items :
        items[k].blocks # << >> /\ items[k].blocks = RowBlocks(k)

\* C18 (as claimed).  Every entry of the parsed index has at least one
\* block, its blocks are in the order of the .idx file, and every block
\* lies inside the uncompressed .dict file.
C18_BlocksInsideDict ==
    /\ BlocksInFileOrder
    /\ \A k \in DOMAIN items : \A i \in DOMAIN items[k].blocks :
         items[k].blocks[i].offset + items[k].blocks[i].size <= Len(data)

(***************************************************************************)
(* Part II: the claims on the chunk cache.                                 *)
(***************************************************************************)

\* The chunks of a request.
ChunksOf(r) ==
    (r.offset \div chunk_length)..((r.offset + r.size - 1) \div chunk_length)

\* The cache keeps what it has, and what it gains is the inflated chunk of
\* the file.
CacheGrows ==
    /\ DOMAIN cache \subseteq DOMAIN cache'
    /\ \A i \in DOMAIN cache : cache'[i] = cache[i]
    /\ \A i \in DOMAIN cache' \ DOMAIN cache :
         /\ i < Len(chunks)
         /\ cache'[i] = Chunk(data, chunk_length, i)

\* A request inside the stream whose chunks are in the cache or can be read
\* and inflated is answered with the text of its range.
ValidAnswered ==
    (/\ zreq'.offset + zreq'.size >= 1
     /\ zreq'.offset + zreq'.size <= Len(data)
     /\ \A i \in ChunksOf(zreq') : read_chunk(cache, i).ok)
      => zres' = [kind |-> "Some",
                  value |-> buf_to_string(SubSeq(data, zreq'.offset + 1,
                                                 zreq'.offset + zreq'.size))]

\* A request that is not answered with a text is answered with no value.
FailureIsNoValue ==
    zreq'.offset + zreq'.size >= 1 => zres'.kind \in {"Some", "None"}

\* C19 (as claimed).  Over any sequence of range requests the chunk cache
\* only grows, by the inflated chunks of the file, and never changes an
\* entry; a request that fails (a short read, a chunk that does not inflate,
\* a range outside the stream) returns no value, and a later valid request
\* is answered correctly.
C19_CacheOnlyGrows ==
    [][CacheGrows /\ FailureIsNoValue /\ ValidAnswered]_vars

(***************************************************************************)
(* Part I: the claims on racing opens.                                     *)
(***************************************************************************)

\* Process q, alive, populates the cache file f: it created the tables of f
\* and has not finished (init_db after the batch, or its populator thread).
Populates(q, f) ==
    /\ alive[q] /\ f # 0 /\ wconn[q] = f
    /\ pc[q] = "init_pid" \/ thr[q] \in {"spawned", "import", "commit"}

\* No cache file has two populators.
OnePopulator ==
    \A f \in 1..Len(files) : \A q \in Procs : \A r \in Procs :
        (Populates(q, f) /\ Populates(r, f)) => q = r

\* A step that takes the cache file away from the path takes away no file
\* that a live process populates.
NoRemovalUnderPopulator ==
    (path # 0 /\ path' # path) => \A q \in Procs : ~Populates(q, path)

\* No open fails in load_db on a file that a live process has created or
\* opened for initialisation and not yet given its meta rows.
NoFailOnIntermediate ==
    \A p \in Procs :
        (pc[p] \in {"check", "pid"} /\ pc'[p] = "failed") =>
            ~\E q \in Procs \ {p} :
                /\ alive[q] /\ wconn[q] = conn[p]
                /\ pc[q] \in {"init_db", "init_pid"}

\* C20 (as claimed).  Under every interleaving of opens by several
\* processes: a cache file has at most one populator, no step removes the
\* cache file that a live process populates, and no open fails because it
\* saw the file between its creation and the insert of init_pid.
C20_RacingOpens ==
    [][OnePopulator' /\ NoRemovalUnderPopulator /\ NoFailOnIntermediate]_vars

(***************************************************************************)
(* Part III: the claims on the sled cache.                                 *)
(***************************************************************************)

\* The sled trees hold every entry of the index and, when the dictionary
\* has a .syn file, every alias set.
SledComplete ==
    /\ \A k \in DOMAIN items : k \in DOMAIN sled_idx
    /\ syn.present =>
         \A k \in DOMAIN syn.map :
             /\ k \in DOMAIN sled_syn
             /\ \A a \in syn.map[k] :
                  \E i \in 1..Len(sled_syn[k]) :
                      /\ i + Len(a) <= Len(sled_syn[k])
                      /\ SubSeq(sled_syn[k], i, i + Len(a)) = a \o <<0>>

\* C21 (as claimed).  A sled cache that StarDictCachedSled::new has opened,
\* after whatever opens came before and ended with an error or a panic,
\* holds every index entry and every synonym set of the dictionary.
C21_SledCacheComplete ==
    sled_handle = "Ok" => SledComplete

============================================================================
